---- MODULE Spec2Model ----
(***************************************************************************)
(* A model of flytekit/annotated/workflow.py: the Workflow entity, its     *)
(* compile() step, its call dispatcher (__call__), _local_execute,         *)
(* _create_and_link_node, _workflow_fn_outputs_to_promise and              *)
(* get_registerable_entity.                                                *)
(*                                                                         *)
(* The Python call stack is the sequence `frames`; the ambient             *)
(* FlyteContext is the stack `ctxStack`; an exception in flight is `exc`   *)
(* and is unwound one frame per step, leaving each `with` block on the     *)
(* way.  Workflow functions (the user's code) are small scripts: a list of *)
(* statements (a call of another workflow, or a compile() of one) and a    *)
(* returned value.                                                         *)
(***************************************************************************)
EXTENDS Integers, Sequences, FiniteSets, TLC

VARIABLES
    wf,         \* per Workflow instance: _nodes, _output_bindings, _registerable_entity
    ctxStack,   \* FlyteContext stack: compilation states and execution states
    frames,     \* call stack of running compile() / _local_execute bodies
    exc,        \* the exception being propagated, "" when none
    last,       \* the most recent call / compile / export event and its outcome
    retShape,   \* per function: the shape of the value its body returns
    mainBody,   \* which body the function "main" has
    subject,    \* the Workflow the top-level caller works with
    compiledWith \* history: the override kwargs of the last successful compile()

vars == <<wf, ctxStack, frames, exc, last, retShape, mainBody, subject, compiledWith>>

-----------------------------------------------------------------------------
(* Bounds *)

\* native argument values are 1..MaxInt
MaxInt == 2
\* a body returns a tuple of at most this many values
MaxTuple == 3

-----------------------------------------------------------------------------
(* Optional values: None is the empty sequence, a present value is <<x>> *)

Null == <<>>
Some(x) == <<x>>
IsNull(o) == o = <<>>
TheVal(o) == o[1]

Range(s) == {s[i] : i \in 1..Len(s)}

-----------------------------------------------------------------------------
(* Values that flow through workflow bodies *)

NoneV == [t |-> "none"]
Native(x) == [t |-> "native", x |-> x]
\* flytekit.models.literals.Literal, the wire form of a native value
Literal(x) == [t |-> "literal", x |-> x]
\* flytekit.common.promise.NodeOutput(sdk_node, var)
NodeOutput(n, var) == [t |-> "nodeoutput", node |-> n, var |-> var]
\* flytekit.annotated.promise.Promise(var, val): val is a Literal or a NodeOutput
Promise(var, val) == [t |-> "promise", var |-> var, val |-> val]
\* flytekit.models.types.OutputReference(node_id, var)
OutputReference(n, var) == [t |-> "outref", node |-> n, var |-> var]
\* flytekit.annotated.condition.ConditionalSection without else_()
CondV == [t |-> "cond"]
TupleV(items) == [t |-> "tuple", items |-> items]

IsPromise(v) == v.t = "promise"
IsTuple(v) == v.t = "tuple"
IsReady(v) == IsPromise(v) /\ v.val.t = "literal"

\* the id of the start node, of the same type as the other node ids
GLOBAL_INPUT_NODE_ID == <<"start-node", 0>>

\* Node id f"node-{n}"
NodeId(n) == <<"node", n>>

-----------------------------------------------------------------------------
(* The workflow functions and the Workflow instances built from them *)

Funcs == {"unit", "leaf", "pair", "main"}

\* two instances wrap the function "main": Workflow(fn) may be constructed twice
WfIds == {"unit", "leaf", "pair", "main", "main2"}

\* self._workflow_function
Func(w) == IF w = "main2" THEN "main" ELSE w

\* self.interface.inputs / self._native_interface.inputs, in declared order
Inputs(f) ==
    CASE f = "unit" -> <<>>
      [] f = "leaf" -> <<"a">>
      [] f = "pair" -> <<"b", "a">>
      [] f = "main" -> <<"a">>

\* self.interface.outputs / self._native_interface.outputs, in declared order
Outputs(f) ==
    CASE f = "unit" -> <<>>
      [] f = "leaf" -> <<"o">>
      [] f = "pair" -> <<"p", "q">>
      [] f = "main" -> <<"o">>

\* argument expressions of a body
EIn(name) == [e |-> "in", name |-> name]
ELit(x) == [e |-> "lit", x |-> x]
ERes(i, j) == [e |-> "res", i |-> i, j |-> j]
ECond == [e |-> "cond"]

Kw(k, v) == [k |-> k, v |-> v]
CallStmt(callee, nargs, kw) ==
    [kind |-> "call", callee |-> callee, nargs |-> nargs, kw |-> kw]
CompileStmt(callee) ==
    [kind |-> "compile", callee |-> callee, nargs |-> 0, kw |-> <<>>]

\* the bodies the function "main" may have
MainBodies == <<
    \* r1 = leaf(a=a); r2 = pair(a=r1, b=r1)
    << CallStmt("leaf", 0, <<Kw("a", EIn("a"))>>),
       CallStmt("pair", 0, <<Kw("a", ERes(1, 1)), Kw("b", ERes(1, 1))>>) >>,
    \* r1 = leaf(a=a); r2 = leaf(a=r1); pair(a=r1, b=r2); pair(b=r2, a=r1)
    << CallStmt("leaf", 0, <<Kw("a", EIn("a"))>>),
       CallStmt("leaf", 0, <<Kw("a", ERes(1, 1))>>),
       CallStmt("pair", 0, <<Kw("a", ERes(1, 1)), Kw("b", ERes(2, 1))>>),
       CallStmt("pair", 0, <<Kw("b", ERes(2, 1)), Kw("a", ERes(1, 1))>>) >>,
    \* leaf(a=a); leaf()
    << CallStmt("leaf", 0, <<Kw("a", EIn("a"))>>),
       CallStmt("leaf", 0, <<>>) >>,
    \* r1 = leaf(a=a); leaf(a=r1, z=1)
    << CallStmt("leaf", 0, <<Kw("a", EIn("a"))>>),
       CallStmt("leaf", 0, <<Kw("a", ERes(1, 1)), Kw("z", ELit(1))>>) >>,
    \* leaf(a=a); leaf(a, a=a)
    << CallStmt("leaf", 0, <<Kw("a", EIn("a"))>>),
       CallStmt("leaf", 1, <<Kw("a", EIn("a"))>>) >>,
    \* pair.compile(); unit()
    << CompileStmt("pair"), CallStmt("unit", 0, <<>>) >>,
    \* leaf(z=1)
    << CallStmt("leaf", 0, <<Kw("z", ELit(1))>>) >>
>>

Body(f) ==
    CASE f = "unit" -> <<>>
      [] f = "leaf" -> <<>>
      [] f = "pair" -> << CallStmt("leaf", 0, <<Kw("a", EIn("a"))>>) >>
      [] f = "main" -> MainBodies[mainBody]

\* the i-th value of the return expression of f
RetItem(f, i) ==
    CASE f = "unit" -> ELit(1)
      [] f = "leaf" -> IF i = 1 THEN EIn("a") ELSE ELit(1)
      [] f = "pair" -> IF i = 1 THEN ERes(1, 1) ELSE IF i = 2 THEN EIn("b") ELSE ELit(1)
      [] f = "main" -> IF mainBody \in {1, 2} /\ i \in {1, 2} THEN ERes(i, i)
                       ELSE IF i = 1 THEN EIn("a") ELSE ELit(1)

\* shapes of a returned value: None, one value, one unresolved conditional,
\* a tuple of n values, a tuple of n values the first an unresolved conditional
ShapeNone == [s |-> "none", n |-> 0]
ShapeBare == [s |-> "bare", n |-> 1]
ShapeCond == [s |-> "cond", n |-> 1]
ShapeTuple(n) == [s |-> "tuple", n |-> n]
ShapeTupleCond(n) == [s |-> "tuplecond", n |-> n]
Shapes == {ShapeNone, ShapeBare, ShapeCond}
            \cup {ShapeTuple(n) : n \in 0..MaxTuple}
            \cup {ShapeTupleCond(n) : n \in 1..MaxTuple}

\* the shape a well-written body of f returns
DefaultShape(f) ==
    IF Len(Outputs(f)) = 0 THEN ShapeNone
    ELSE IF Len(Outputs(f)) = 1 THEN ShapeBare
    ELSE ShapeTuple(Len(Outputs(f)))

-----------------------------------------------------------------------------
(* Keyword arguments: a Python dict, a sequence of (k, v) in insertion order *)

KwNames(kw) == {kw[i].k : i \in 1..Len(kw)}
KwHas(kw, k) == k \in KwNames(kw)
KwGet(kw, k) == (CHOOSE p \in Range(kw) : p.k = k).v
KwSet(kw, k, v) ==
    IF KwHas(kw, k)
    THEN [i \in 1..Len(kw) |-> IF kw[i].k = k THEN Kw(k, v) ELSE kw[i]]
    ELSE Append(kw, Kw(k, v))

\* dict.update(other)
RECURSIVE DictUpdate(_, _)
DictUpdate(kw, other) ==
    IF other = <<>> THEN kw
    ELSE DictUpdate(KwSet(kw, Head(other).k, Head(other).v), Tail(other))

\* Python's order on the names used here
NameRank(k) ==
    CASE k = "a" -> 1
      [] k = "b" -> 2
      [] k = "o" -> 3
      [] k = "p" -> 4
      [] k = "q" -> 5
      [] k = "z" -> 6

\* sorted(names)
RECURSIVE SortedNames(_)
SortedNames(S) ==
    IF S = {} THEN <<>>
    ELSE LET m == CHOOSE x \in S : \A y \in S : NameRank(x) <= NameRank(y)
         IN <<m>> \o SortedNames(S \ {m})

\* the workflow function accepts exactly its declared parameters
CanBind(f, kw) == KwNames(kw) = Range(Inputs(f))

-----------------------------------------------------------------------------
(* The conversion collaborators: TypeEngine and binding_from_python_std *)

\* TypeEngine.to_literal is defined on native values of the declared type
Convertible(v) == v.t = "native"
ToLiteral(v) == Literal(v.x)
\* TypeEngine.to_python_value is defined on literals
ToPythonValue(l) == Native(l.x)

\* binding_from_python_std raises on a value it cannot bind
RECURSIVE Bindable(_)
Bindable(v) ==
    CASE v.t = "outref" -> TRUE
      [] v.t = "promise" -> TRUE
      [] v.t = "native" -> TRUE
      [] v.t = "tuple" -> \A i \in 1..Len(v.items) : Bindable(v.items[i])
      [] OTHER -> FALSE

RECURSIVE BindingData(_)
BindingData(v) ==
    CASE v.t = "outref" -> v
      [] v.t = "promise" ->
            IF IsReady(v) THEN v.val ELSE OutputReference(v.val.node, v.val.var)
      [] v.t = "native" -> ToLiteral(v)
      [] v.t = "tuple" ->
            [t |-> "collection",
             items |-> [i \in 1..Len(v.items) |-> BindingData(v.items[i])]]

\* flytekit.models.literals.Binding(var, binding)
BindingFromPythonStd(k, v) == [var |-> k, binding |-> BindingData(v)]

\* create_task_output: None stays None, one promise is returned bare,
\* otherwise the promises are returned as a tuple
CreateTaskOutput(promises) ==
    IF IsNull(promises) THEN NoneV
    ELSE IF Len(TheVal(promises)) = 1 THEN TheVal(promises)[1]
    ELSE TupleV(TheVal(promises))

-----------------------------------------------------------------------------
(* Results of the pure parts of the handlers: err = "" when none is raised *)

Ok(v) == [err |-> "", val |-> v]
Err(e) == [err |-> e, val |-> NoneV]

\* Promise.with_var(k)
WithVar(p, k) == [p EXCEPT !.var = k]

\* _workflow_fn_outputs_to_promise(ctx, native_outputs, typed_outputs, outputs);
\* val is the optional list of promises
WorkflowFnOutputsToPromise(f, outputs) ==
    LET names == Outputs(f)
        k == Len(names)
    IN
    IF k = 0
    THEN IF outputs # NoneV THEN Err("AssertionError:no_outputs_expected")
         ELSE Ok(Null)
    ELSE IF k = 1 /\ IsTuple(outputs) /\ Len(outputs.items) # 1
    THEN Err("AssertionError:one_return_value")
    ELSE IF k > 1 /\ (~IsTuple(outputs) \/ Len(outputs.items) # k)
    THEN Err("AssertionError:return_count")
    ELSE LET outs == IF IsTuple(outputs) THEN outputs.items ELSE <<outputs>>
         IN IF \E i \in 1..k : ~IsPromise(outs[i]) /\ ~Convertible(outs[i])
            THEN Err("TypeError:conversion")
            ELSE Ok(Some([i \in 1..k |->
                            IF IsPromise(outs[i]) THEN WithVar(outs[i], names[i])
                            ELSE Promise(names[i], ToLiteral(outs[i]))]))

\* _construct_input_promises: one global-input reference per declared input
ConstructInputPromises(f) ==
    [i \in 1..Len(Inputs(f)) |->
        Kw(Inputs(f)[i], OutputReference(GLOBAL_INPUT_NODE_ID, Inputs(f)[i]))]

\* a plausible slip: only the first of several outputs is bound
CompileBindingsFirstOnly(f, workflow_outputs) ==
    LET names == Outputs(f)
        k == Len(names)
        out == IF IsTuple(workflow_outputs) /\ Len(workflow_outputs.items) > 0
               THEN workflow_outputs.items[1] ELSE workflow_outputs
    IN
    IF k = 0 THEN Ok(<<>>)
    ELSE IF k = 1 /\ IsTuple(workflow_outputs) /\ Len(workflow_outputs.items) # 1
    THEN Err("AssertionError:one_return_value")
    ELSE IF k > 1 /\ ~IsTuple(workflow_outputs)
    THEN Err("AssertionError:multiple_expected")
    ELSE IF ~Bindable(out) THEN Err("TypeError:conversion")
    ELSE Ok(<<BindingFromPythonStd(names[1], out)>>)

\* compile(), lines 130-158: the output bindings of the traced return value
CompileBindings(f, workflow_outputs) ==
    LET names == Outputs(f)
        k == Len(names)
    IN
    IF k = 1
    THEN IF IsTuple(workflow_outputs) /\ Len(workflow_outputs.items) # 1
         THEN Err("AssertionError:one_return_value")
         ELSE IF ~Bindable(workflow_outputs) THEN Err("TypeError:conversion")
         ELSE Ok(<<BindingFromPythonStd(names[1], workflow_outputs)>>)
    ELSE IF k > 1
    THEN IF ~IsTuple(workflow_outputs)
         THEN Err("AssertionError:multiple_expected")
         ELSE IF k # Len(workflow_outputs.items)
         THEN Err("Exception:length_mismatch")
         ELSE LET items == workflow_outputs.items
                  bad == {i \in 1..k : items[i] = CondV \/ ~Bindable(items[i])}
                  first == CHOOSE i \in bad : \A j \in bad : i <= j
              IN IF bad # {}
                 THEN IF items[first] = CondV
                      THEN Err("AssertionError:conditional_no_else")
                      ELSE Err("TypeError:conversion")
                 ELSE Ok([i \in 1..k |-> BindingFromPythonStd(names[i], items[i])])
    ELSE Ok(<<>>)

\* compile(), lines 163-167: what compile() returns
CompileReturnValue(bindings) ==
    IF Len(bindings) = 0 THEN NoneV
    ELSE IF Len(bindings) = 1 THEN [t |-> "binding", b |-> bindings[1]]
    ELSE TupleV([i \in 1..Len(bindings) |-> [t |-> "binding", b |-> bindings[i]]])

\* a plausible slip: the promises are returned as they are
LocalRootResultUnconverted(f, result) == Ok(result)

\* __call__, lines 227-248: the native result of a top-level call
LocalRootResult(f, result) ==
    LET expected_outputs == Len(Outputs(f)) IN
    IF expected_outputs > 1 /\ ~IsTuple(result)
    THEN Err("TypeError:len")
    ELSE IF \/ (expected_outputs = 0 /\ result = NoneV)
            \/ (expected_outputs > 1 /\ Len(result.items) = expected_outputs)
            \/ (expected_outputs = 1 /\ result # NoneV)
    THEN IF result = NoneV THEN Ok(NoneV)
         ELSE IF IsPromise(result)
         THEN IF IsReady(result) THEN Ok(ToPythonValue(result.val))
              ELSE Err("TypeError:conversion")
         ELSE IF ~IsTuple(result) THEN Err("TypeError:not_iterable")
         ELSE IF Len(result.items) = 0 THEN Err("ValueError:outputs_mismatch")
         ELSE IF ~IsPromise(result.items[1]) THEN Err("Exception:should_be_promises")
         ELSE IF \E i \in 1..Len(result.items) : ~IsReady(result.items[i])
         THEN Err("TypeError:conversion")
         ELSE Ok(TupleV([i \in 1..Len(result.items) |->
                            ToPythonValue(result.items[i].val)]))
    ELSE Err("ValueError:outputs_mismatch")

-----------------------------------------------------------------------------
(* _create_and_link_node *)

\* sorted(bindings, key=lambda b: b.var)
SortBindings(bs) ==
    LET names == SortedNames({bs[i].var : i \in 1..Len(bs)})
    IN [i \in 1..Len(bs) |-> CHOOSE b \in Range(bs) : b.var = names[i]]

\* a plausible slip: one binding per supplied keyword argument, in call order
LinkBindingsCallOrder(f, kwargs) ==
    [i \in 1..Len(kwargs) |-> BindingFromPythonStd(kwargs[i].k, kwargs[i].v)]

\* lines 260-266 and 281: one binding per declared input, sorted by name
LinkBindings(f, kwargs) ==
    LET sorted == SortedNames(Range(Inputs(f)))
    IN SortBindings([i \in 1..Len(sorted) |->
            BindingFromPythonStd(sorted[i], KwGet(kwargs, sorted[i]))])

\* line 276: the node of every Promise among the values, in call order
UpstreamNodes(kwargs) ==
    LET promises == SelectSeq(kwargs, LAMBDA p : IsPromise(p.v))
    IN [i \in 1..Len(promises) |-> promises[i].v.val.node]

\* a plausible slip: the outputs are walked in the reverse of declared order
NodeOutputsReversed(f, node) ==
    [i \in 1..Len(Outputs(f)) |->
        Promise(Outputs(f)[Len(Outputs(f)) + 1 - i],
                NodeOutput(node.id, Outputs(f)[Len(Outputs(f)) + 1 - i]))]

\* lines 287-298: one Promise per declared output, pointing at the node
NodeOutputs(f, node) ==
    [i \in 1..Len(Outputs(f)) |->
        Promise(Outputs(f)[i], NodeOutput(node.id, Outputs(f)[i]))]

\* a plausible slip: undeclared keyword arguments are not looked for
CreateAndLinkNodeNoExtraCheck(w, kwargs, nodes) ==
    LET f == Func(w)
        sorted == SortedNames(Range(Inputs(f)))
        node == [id |-> NodeId(Len(nodes)),
                 name |-> f,
                 bindings |-> LinkBindings(f, kwargs),
                 upstream_nodes |-> UpstreamNodes(kwargs),
                 flyte_entity |-> w]
    IN
    IF \E i \in 1..Len(sorted) : ~KwHas(kwargs, sorted[i])
    THEN Err("FlyteAssertion:missing_input")
    ELSE IF \E i \in 1..Len(sorted) : ~Bindable(KwGet(kwargs, sorted[i]))
    THEN Err("TypeError:conversion")
    ELSE Ok([node |-> node, result |-> CreateTaskOutput(Some(NodeOutputs(f, node)))])

\* _create_and_link_node(ctx, **kwargs) against the node list `nodes` of the
\* active compilation state; val is the new node and the returned promises
CreateAndLinkNode(w, kwargs, nodes) ==
    LET f == Func(w)
        sorted == SortedNames(Range(Inputs(f)))
        bad == {i \in 1..Len(sorted) :
                    \/ ~KwHas(kwargs, sorted[i])
                    \/ ~Bindable(KwGet(kwargs, sorted[i]))}
        first == CHOOSE i \in bad : \A j \in bad : i <= j
        used_inputs == Range(sorted)
        extra_inputs == (used_inputs \ KwNames(kwargs)) \cup (KwNames(kwargs) \ used_inputs)
        node == [id |-> NodeId(Len(nodes)),
                 name |-> f,
                 bindings |-> LinkBindings(f, kwargs),
                 upstream_nodes |-> UpstreamNodes(kwargs),
                 flyte_entity |-> w]
    IN
    IF bad # {}
    THEN IF ~KwHas(kwargs, sorted[first]) THEN Err("FlyteAssertion:missing_input")
         ELSE Err("TypeError:conversion")
    ELSE IF extra_inputs # {} THEN Err("FlyteAssertion:too_many_inputs")
    ELSE IF \E i \in 1..Len(kwargs) : IsReady(kwargs[i].v)
    THEN Err("AttributeError:ref")
    ELSE Ok([node |-> node, result |-> CreateTaskOutput(Some(NodeOutputs(f, node)))])

-----------------------------------------------------------------------------
(* The ambient context: FlyteContext.current_context() and its parents *)

CompEntry(nodes) == [kind |-> "comp", nodes |-> nodes, mode |-> ""]
ExecEntry(mode) == [kind |-> "exec", nodes |-> <<>>, mode |-> mode]

LOCAL_WORKFLOW_EXECUTION == "LOCAL_WORKFLOW_EXECUTION"

\* index of the innermost context that carries a compilation state, 0 if none
CompIndex(cs) ==
    LET I == {i \in 1..Len(cs) : cs[i].kind = "comp"}
    IN IF I = {} THEN 0 ELSE CHOOSE i \in I : \A j \in I : j <= i

\* index of the innermost context that carries an execution state, 0 if none
ExecIndex(cs) ==
    LET I == {i \in 1..Len(cs) : cs[i].kind = "exec"}
    IN IF I = {} THEN 0 ELSE CHOOSE i \in I : \A j \in I : j <= i

\* ctx.compilation_state is not None
CompActive(cs) == CompIndex(cs) # 0
\* ctx.compilation_state.nodes
CompNodes(cs) == cs[CompIndex(cs)].nodes
\* ctx.execution_state is not None and its mode is LOCAL_WORKFLOW_EXECUTION
MarkerActive(cs) ==
    ExecIndex(cs) # 0 /\ cs[ExecIndex(cs)].mode = LOCAL_WORKFLOW_EXECUTION
\* a plausible slip: the new node is put in front of the list
PrependNode(cs, node) == [cs EXCEPT ![CompIndex(cs)].nodes = <<node>> \o @]
\* ctx.compilation_state.nodes.append(node)
AppendNode(cs, node) == [cs EXCEPT ![CompIndex(cs)].nodes = Append(@, node)]

Pop(s) == SubSeq(s, 1, Len(s) - 1)
Top(s) == s[Len(s)]

\* a plausible slip: the local-execution marker is tested before the tracing context
DispatchMarkerFirst(cs) ==
    IF MarkerActive(cs) THEN "nested"
    ELSE IF CompActive(cs) THEN "link"
    ELSE "root"

\* __call__, lines 198-213: the mode of a call made under the context cs
Dispatch(cs) ==
    IF CompActive(cs) THEN "link"
    ELSE IF MarkerActive(cs) THEN "nested"
    ELSE "root"

-----------------------------------------------------------------------------
(* Running bodies *)

\* a running workflow function: op is "compile" (called by compile()) or
\* "local" (called by _local_execute); root marks the frame of a top-level
\* call, which entered the execution context; ov are compile()'s kwargs
Frame(op, w, root, kwargs, ov) ==
    [op |-> op, w |-> w, root |-> root, kwargs |-> kwargs, pc |-> 1,
     env |-> <<>>, ov |-> ov]

\* the frame entered a context of its own (a `with` block)
EnteredContext(fr) == fr.op = "compile" \/ fr.root

ResItem(v, j) == IF IsTuple(v) THEN v.items[j] ELSE v

\* the value of an argument expression in a running body
Eval(e, fr) ==
    CASE e.e = "in" -> KwGet(fr.kwargs, e.name)
      [] e.e = "lit" -> Native(e.x)
      [] e.e = "res" -> ResItem(fr.env[e.i], e.j)
      [] e.e = "cond" -> CondV

EvalKw(kw, fr) == [i \in 1..Len(kw) |-> Kw(kw[i].k, Eval(kw[i].v, fr))]

\* the value the body returns
ReturnValue(fr) ==
    LET f == Func(fr.w)
        sh == retShape[f]
    IN CASE sh.s = "none" -> NoneV
         [] sh.s = "bare" -> Eval(RetItem(f, 1), fr)
         [] sh.s = "cond" -> CondV
         [] sh.s = "tuple" -> TupleV([i \in 1..sh.n |-> Eval(RetItem(f, i), fr)])
         [] sh.s = "tuplecond" ->
                TupleV([i \in 1..sh.n |-> IF i = 1 THEN CondV ELSE Eval(RetItem(f, i), fr)])

\* the caller continues with the value v of the statement it was executing
Resume(stack, v) ==
    IF stack = <<>> THEN stack
    ELSE [stack EXCEPT ![Len(stack)].pc = @ + 1,
                       ![Len(stack)].env = Append(@, v)]

Event(op, w, mode, nargs, kw, status, err, value) ==
    [op |-> op, w |-> w, mode |-> mode, nargs |-> nargs, kw |-> kw,
     status |-> status, err |-> err, value |-> value]

NoEvent == Event("none", "", "", 0, <<>>, "none", "", NoneV)

Idle == frames = <<>> /\ exc = ""
Running == frames # <<>> /\ exc = ""

\* an exception raised by the step: with no caller running it reaches the
\* top level at once, otherwise it starts to unwind the stack
Raise(ev, err) ==
    /\ last' = [ev EXCEPT !.status = "raised", !.err = err]
    /\ exc' = IF frames = <<>> THEN "" ELSE err
    /\ UNCHANGED <<wf, ctxStack, frames, retShape, mainBody, subject, compiledWith>>

-----------------------------------------------------------------------------
(* Initial state *)

WfInit == [nodes |-> Null, output_bindings |-> Null, registerable_entity |-> Null]

Init ==
    /\ wf = [w \in WfIds |-> WfInit]
    /\ ctxStack = <<>>
    /\ frames = <<>>
    /\ exc = ""
    /\ last = NoEvent
    /\ subject \in Funcs
    /\ mainBody \in 1..Len(MainBodies)
    /\ subject # "main" => mainBody = 1
    \* one function may return a value of any shape, the others are well written
    /\ \E f \in Funcs, s \in Shapes :
          /\ f = subject \/ (subject = "pair" /\ f = "leaf")
          /\ mainBody # 1 => s = DefaultShape(f)
          /\ retShape = [g \in Funcs |-> IF g = f THEN s ELSE DefaultShape(g)]
    /\ compiledWith = [w \in WfIds |-> <<>>]

-----------------------------------------------------------------------------
(* compile() *)

\* a plausible slip: the trace starts from the nodes of the previous compile
StaleCompilationNodes(w) == IF IsNull(wf[w].nodes) THEN <<>> ELSE TheVal(wf[w].nodes)

\* lines 121-123: the node list of the new compilation context is empty
FreshCompilationNodes(w) == <<>>

\* compile(**kwargs), lines 120-127: enter a compilation context and call the
\* workflow function on the global-input references updated by the kwargs
StartCompile(w, ov) ==
    LET f == Func(w)
        input_kwargs == DictUpdate(ConstructInputPromises(f), ov)
        ev == Event("compile", w, "compile", 0, ov, "running", "", NoneV)
    IN IF ~CanBind(f, input_kwargs)
       THEN Raise(ev, "TypeError:function_arguments")
       ELSE /\ ctxStack' = Append(ctxStack, CompEntry(FreshCompilationNodes(w)))
            /\ frames' = Append(frames, Frame("compile", w, FALSE, input_kwargs, ov))
            /\ last' = ev
            /\ UNCHANGED <<wf, exc, retShape, mainBody, subject, compiledWith>>

\* a plausible slip: the traced nodes are stored before the outputs are resolved
FinishCompileStoresFirst ==
    LET fr == Top(frames)
        f == Func(fr.w)
        workflow_outputs == ReturnValue(fr)
        all_nodes == CompNodes(ctxStack)
        r == CompileBindings(f, workflow_outputs)
        ev == Event("compile", fr.w, "compile", 0, fr.ov, "running", "", NoneV)
    IN IF r.err # ""
       THEN /\ wf' = [wf EXCEPT ![fr.w].nodes = Some(all_nodes)]
            /\ last' = [ev EXCEPT !.status = "raised", !.err = r.err]
            /\ exc' = r.err
            /\ UNCHANGED <<ctxStack, frames, retShape, mainBody, subject, compiledWith>>
       ELSE /\ wf' = [wf EXCEPT ![fr.w].nodes = Some(all_nodes),
                                ![fr.w].output_bindings = Some(r.val)]
            /\ ctxStack' = Pop(ctxStack)
            /\ frames' = Resume(Pop(frames), CompileReturnValue(r.val))
            /\ last' = [ev EXCEPT !.status = "ok", !.value = CompileReturnValue(r.val)]
            /\ compiledWith' = [compiledWith EXCEPT ![fr.w] = fr.ov]
            /\ UNCHANGED <<exc, retShape, mainBody, subject>>

\* compile(), lines 128-167: the traced body has returned
FinishCompile ==
    LET fr == Top(frames)
        f == Func(fr.w)
        workflow_outputs == ReturnValue(fr)
        all_nodes == CompNodes(ctxStack)
        r == CompileBindings(f, workflow_outputs)
        ev == Event("compile", fr.w, "compile", 0, fr.ov, "running", "", NoneV)
    IN IF r.err # ""
       THEN Raise(ev, r.err)
       ELSE /\ wf' = [wf EXCEPT ![fr.w].nodes = Some(all_nodes),
                                ![fr.w].output_bindings = Some(r.val)]
            /\ ctxStack' = Pop(ctxStack)
            /\ frames' = Resume(Pop(frames), CompileReturnValue(r.val))
            /\ last' = [ev EXCEPT !.status = "ok", !.value = CompileReturnValue(r.val)]
            /\ compiledWith' = [compiledWith EXCEPT ![fr.w] = fr.ov]
            /\ UNCHANGED <<exc, retShape, mainBody, subject>>

-----------------------------------------------------------------------------
(* __call__ and _local_execute *)

\* a plausible slip: positional arguments are ignored
RejectsPositionalNever(nargs) == FALSE

\* line 195
RejectsPositional(nargs) == nargs > 0

\* a plausible slip: the sanity checks look at the names only
RootCheckNamesOnly(f, kwargs) ==
    IF \E i \in 1..Len(kwargs) : kwargs[i].k \notin Range(Inputs(f))
    THEN "ValueError:unexpected_kwarg"
    ELSE ""

\* lines 218-222: the first keyword argument the sanity checks reject
RootCheck(f, kwargs) ==
    LET bad == {i \in 1..Len(kwargs) :
                    kwargs[i].k \notin Range(Inputs(f)) \/ IsPromise(kwargs[i].v)}
        first == CHOOSE i \in bad : \A j \in bad : i <= j
    IN IF bad = {} THEN ""
       ELSE IF kwargs[first].k \notin Range(Inputs(f)) THEN "ValueError:unexpected_kwarg"
       ELSE "ValueError:promise_given"

\* _local_execute, lines 181-184: every non-Promise argument becomes a Promise
LocalArgs(f, kwargs) ==
    LET bad == {i \in 1..Len(kwargs) :
                    /\ ~IsPromise(kwargs[i].v)
                    /\ kwargs[i].k \notin Range(Inputs(f)) \/ ~Convertible(kwargs[i].v)}
        first == CHOOSE i \in bad : \A j \in bad : i <= j
    IN IF bad # {}
       THEN IF kwargs[first].k \notin Range(Inputs(f)) THEN Err("KeyError:input")
            ELSE Err("TypeError:conversion")
       ELSE Ok([i \in 1..Len(kwargs) |->
                   IF IsPromise(kwargs[i].v) THEN kwargs[i]
                   ELSE Kw(kwargs[i].k, Promise(kwargs[i].k, ToLiteral(kwargs[i].v)))])

\* _local_execute, lines 177-188, up to the call of the workflow function;
\* a top-level call has entered the execution context first (line 224)
LocalExecute(w, kwargs, root) ==
    LET f == Func(w)
        a == LocalArgs(f, kwargs)
        ev == Event("call", w, IF root THEN "root" ELSE "nested", 0, kwargs,
                    "running", "", NoneV)
    IN IF a.err # "" THEN Raise(ev, a.err)
       ELSE IF ~CanBind(f, a.val) THEN Raise(ev, "TypeError:function_arguments")
       ELSE /\ frames' = Append(frames, Frame("local", w, root, a.val, <<>>))
            /\ ctxStack' = IF root
                           THEN Append(ctxStack, ExecEntry(LOCAL_WORKFLOW_EXECUTION))
                           ELSE ctxStack
            /\ last' = ev
            /\ UNCHANGED <<wf, exc, retShape, mainBody, subject, compiledWith>>

\* a plausible slip: the callee's node starts a node list of its own
LinkCallOwnList(w, kwargs) ==
    LET r == CreateAndLinkNode(w, kwargs, CompNodes(ctxStack))
        ev == Event("call", w, "link", 0, kwargs, "running", "", NoneV)
    IN IF r.err # "" THEN Raise(ev, r.err)
       ELSE /\ ctxStack' = Append(ctxStack, CompEntry(<<r.val.node>>))
            /\ frames' = Resume(frames, r.val.result)
            /\ last' = [ev EXCEPT !.status = "ok", !.value = r.val.result]
            /\ UNCHANGED <<wf, exc, retShape, mainBody, subject, compiledWith>>

\* __call__, line 202: a call under a compilation context links a node
LinkCall(w, kwargs) ==
    LET r == CreateAndLinkNode(w, kwargs, CompNodes(ctxStack))
        ev == Event("call", w, "link", 0, kwargs, "running", "", NoneV)
    IN IF r.err # "" THEN Raise(ev, r.err)
       ELSE /\ ctxStack' = AppendNode(ctxStack, r.val.node)
            /\ frames' = Resume(frames, r.val.result)
            /\ last' = [ev EXCEPT !.status = "ok", !.value = r.val.result]
            /\ UNCHANGED <<wf, exc, retShape, mainBody, subject, compiledWith>>

\* __call__(*args, **kwargs), lines 194-225
DoCall(w, nargs, kwargs) ==
    LET f == Func(w)
        mode == Dispatch(ctxStack)
    IN IF RejectsPositional(nargs)
       THEN Raise(Event("call", w, "", nargs, kwargs, "running", "", NoneV),
                  "AssertionError:positional")
       ELSE IF mode = "link" THEN LinkCall(w, kwargs)
       ELSE IF mode = "nested" THEN LocalExecute(w, kwargs, FALSE)
       ELSE IF RootCheck(f, kwargs) # ""
       THEN Raise(Event("call", w, "root", nargs, kwargs, "running", "", NoneV),
                  RootCheck(f, kwargs))
       ELSE LocalExecute(w, kwargs, TRUE)

\* _local_execute, lines 188-192, and __call__, lines 225-248: the body of a
\* local execution has returned
FinishLocal ==
    LET fr == Top(frames)
        f == Func(fr.w)
        function_outputs == ReturnValue(fr)
        r == WorkflowFnOutputsToPromise(f, function_outputs)
        result == CreateTaskOutput(r.val)
        rr == LocalRootResult(f, result)
        ev == Event("call", fr.w, IF fr.root THEN "root" ELSE "nested", 0, fr.kwargs,
                    "running", "", NoneV)
    IN IF r.err # "" THEN Raise(ev, r.err)
       ELSE IF ~fr.root
       THEN /\ frames' = Resume(Pop(frames), result)
            /\ last' = [ev EXCEPT !.status = "ok", !.value = result]
            /\ UNCHANGED <<wf, ctxStack, exc, retShape, mainBody, subject, compiledWith>>
       ELSE IF rr.err # "" THEN Raise(ev, rr.err)
       ELSE /\ frames' = Resume(Pop(frames), rr.val)
            /\ ctxStack' = Pop(ctxStack)
            /\ last' = [ev EXCEPT !.status = "ok", !.value = rr.val]
            /\ UNCHANGED <<wf, exc, retShape, mainBody, subject, compiledWith>>

-----------------------------------------------------------------------------
(* get_registerable_entity *)

\* registration settings of the current context
Settings == {[project |-> "p1", domain |-> "d1", version |-> "v1"],
             [project |-> "p2", domain |-> "d2", version |-> "v2"]}

\* Node.get_registerable_entity: the exported form of a node
SdkNode(n) == [id |-> n.id, upstream |-> n.upstream_nodes, bindings |-> n.bindings]

\* lines 305-324: the SdkWorkflow built from the compiled graph
SdkWorkflow(w, settings) ==
    [nodes |-> [i \in 1..Len(TheVal(wf[w].nodes)) |-> SdkNode(TheVal(wf[w].nodes)[i])],
     id |-> [project |-> settings.project, domain |-> settings.domain,
             name |-> Func(w), version |-> settings.version],
     interface |-> Func(w),
     output_bindings |-> wf[w].output_bindings]

\* a plausible slip: a workflow without nodes is exported as an empty graph
GetRegisterableEntityLenient(w, settings) ==
    LET ev == Event("export", w, "", 0, <<>>, "running", "", NoneV)
        entity == [nodes |-> <<>>,
                   id |-> [project |-> settings.project, domain |-> settings.domain,
                           name |-> Func(w), version |-> settings.version],
                   interface |-> Func(w),
                   output_bindings |-> wf[w].output_bindings]
    IN /\ wf' = [wf EXCEPT ![w].registerable_entity = Some(entity)]
       /\ last' = [ev EXCEPT !.status = "ok", !.value = entity]
       /\ UNCHANGED <<ctxStack, frames, exc, retShape, mainBody, subject, compiledWith>>

\* a plausible slip: the entity is built anew on every call
GetRegisterableEntityRebuilds(w, settings) ==
    LET ev == Event("export", w, "", 0, <<>>, "running", "", NoneV)
    IN IF IsNull(wf[w].nodes)
       THEN Raise(ev, "TypeError:nodes_none")
       ELSE /\ wf' = [wf EXCEPT ![w].registerable_entity = Some(SdkWorkflow(w, settings))]
            /\ last' = [ev EXCEPT !.status = "ok", !.value = SdkWorkflow(w, settings)]
            /\ UNCHANGED <<ctxStack, frames, exc, retShape, mainBody, subject, compiledWith>>

\* get_registerable_entity(), lines 300-326
GetRegisterableEntity(w, settings) ==
    LET ev == Event("export", w, "", 0, <<>>, "running", "", NoneV)
    IN IF ~IsNull(wf[w].registerable_entity)
       THEN /\ last' = [ev EXCEPT !.status = "ok",
                                  !.value = TheVal(wf[w].registerable_entity)]
            /\ UNCHANGED <<wf, ctxStack, frames, exc, retShape, mainBody, subject, compiledWith>>
       ELSE IF IsNull(wf[w].nodes)
       THEN Raise(ev, "TypeError:nodes_none")
       ELSE /\ wf' = [wf EXCEPT ![w].registerable_entity = Some(SdkWorkflow(w, settings))]
            /\ last' = [ev EXCEPT !.status = "ok", !.value = SdkWorkflow(w, settings)]
            /\ UNCHANGED <<ctxStack, frames, exc, retShape, mainBody, subject, compiledWith>>

-----------------------------------------------------------------------------
(* The operations *)

\* keyword arguments a top-level caller may supply
\* the declared inputs and one undeclared name
TopNames(w) == Inputs(Func(w)) \o <<"z">>
Absent == [t |-> "absent"]
TopValues == {Native(v) : v \in 1..MaxInt} \cup {Promise("x", Literal(1))}
KwFrom(names, c) ==
    LET present == SelectSeq(names, LAMBDA n : c[n] # Absent)
    IN [i \in 1..Len(present) |-> Kw(present[i], c[present[i]])]
TopChoices(w) ==
    {c \in [Range(TopNames(w)) -> TopValues \cup {Absent}] : c["z"] \in {Absent, Native(1)}}
TopKwargs(w) == {KwFrom(TopNames(w), c) : c \in TopChoices(w)}
\* the keyword arguments that accompany a positional argument
PositionalKwargs(w) ==
    {<<>>, [i \in 1..Len(Inputs(Func(w))) |-> Kw(Inputs(Func(w))[i], Native(1))]}

\* the instances the top-level caller compiles: the second instance of
\* "main" is a fresh Workflow around the same function
CompileIds == IF subject = "main" THEN {"main", "main2"} ELSE {subject}

\* kwargs a top-level caller may give compile()
Overrides == {<<>>, <<Kw("a", Native(1))>>, <<Kw("a", NoneV)>>, <<Kw("z", Native(1))>>}

\* workflow_instance.compile(**kwargs) from the top level
Compile == Idle /\ \E w \in CompileIds, ov \in Overrides : StartCompile(w, ov)

\* workflow_instance(*args, **kwargs) from the top level
Call ==
    /\ Idle
    /\ \E nargs \in 0..1 :
         \E kw \in IF nargs = 0 THEN TopKwargs(subject) ELSE PositionalKwargs(subject) :
            DoCall(subject, nargs, kw)

\* workflow_instance.get_registerable_entity() from the top level
Export == Idle /\ \E s \in Settings : GetRegisterableEntity(subject, s)

AtStmt == Running /\ Top(frames).pc <= Len(Body(Func(Top(frames).w)))
CurStmt == Body(Func(Top(frames).w))[Top(frames).pc]

\* the running body calls a workflow
StmtCall ==
    /\ AtStmt /\ CurStmt.kind = "call"
    /\ DoCall(CurStmt.callee, CurStmt.nargs, EvalKw(CurStmt.kw, Top(frames)))

\* the running body compiles a workflow
StmtCompile ==
    /\ AtStmt /\ CurStmt.kind = "compile"
    /\ StartCompile(CurStmt.callee, <<>>)

AtReturn == Running /\ Top(frames).pc > Len(Body(Func(Top(frames).w)))

\* the body traced by compile() returns
CompileReturn == AtReturn /\ Top(frames).op = "compile" /\ FinishCompile

\* the body run by _local_execute returns
LocalReturn == AtReturn /\ Top(frames).op = "local" /\ FinishLocal

\* a plausible slip: the context is entered without a `with` block, so an
\* exception leaves the body but not the context
UnwindLeaking ==
    /\ exc # "" /\ frames # <<>>
    /\ LET fr == Top(frames) IN
        /\ frames' = Pop(frames)
        /\ IF Len(frames) = 1
           THEN /\ exc' = ""
                /\ last' = Event(IF fr.op = "compile" THEN "compile" ELSE "call", fr.w,
                                 IF fr.op = "compile" THEN "compile"
                                 ELSE IF fr.root THEN "root" ELSE "nested",
                                 0, IF fr.op = "compile" THEN fr.ov ELSE fr.kwargs,
                                 "raised", exc, NoneV)
           ELSE UNCHANGED <<exc, last>>
    /\ UNCHANGED <<wf, ctxStack, retShape, mainBody, subject, compiledWith>>

\* an exception leaves the innermost running body, and the `with` block the
\* frame had entered; out of the last frame it reaches the top-level caller
Unwind ==
    /\ exc # "" /\ frames # <<>>
    /\ LET fr == Top(frames) IN
        /\ frames' = Pop(frames)
        /\ ctxStack' = IF EnteredContext(fr) THEN Pop(ctxStack) ELSE ctxStack
        /\ IF Len(frames) = 1
           THEN /\ exc' = ""
                /\ last' = Event(IF fr.op = "compile" THEN "compile" ELSE "call", fr.w,
                                 IF fr.op = "compile" THEN "compile"
                                 ELSE IF fr.root THEN "root" ELSE "nested",
                                 0, IF fr.op = "compile" THEN fr.ov ELSE fr.kwargs,
                                 "raised", exc, NoneV)
           ELSE UNCHANGED <<exc, last>>
    /\ UNCHANGED <<wf, retShape, mainBody, subject, compiledWith>>

Next ==
    \/ Compile
    \/ Call
    \/ Export
    \/ StmtCall
    \/ StmtCompile
    \/ CompileReturn
    \/ LocalReturn
    \/ Unwind

Spec == Init /\ [][Next]_vars

-----------------------------------------------------------------------------
(* Properties *)

\* the node lists of the compilation states in the context stack
CompLists(cs) ==
    LET comps == SelectSeq(cs, LAMBDA c : c.kind = "comp")
    IN [i \in 1..Len(comps) |-> comps[i].nodes]

\* the step is a call from the top level / from a running body
TopCallStep == Idle /\ last'.op = "call"
BodyCallStep == AtStmt /\ CurStmt.kind = "call"

C1_PlainCallStep ==
    \/ TopCallStep /\ last'.nargs = 0
    \/ BodyCallStep /\ CurStmt.nargs = 0
C1_ModeByContext ==
    IF CompActive(ctxStack) THEN "link"
    ELSE IF MarkerActive(ctxStack) THEN "nested"
    ELSE "root"

\* C1: a call without positional arguments is a Link when a compilation
\* context is active (whether or not the local-execution marker is active too),
\* otherwise Local-nested when the marker is active, otherwise Local-root; a
\* Link starts no workflow body and a local call adds no Node to any trace
C1_Dispatch ==
    [][C1_PlainCallStep =>
        /\ last'.op = "call" /\ last'.mode = C1_ModeByContext
        /\ C1_ModeByContext = "link" =>
              /\ frames' = frames \/ frames' = Resume(frames, last'.value)
              /\ last'.status = "ok" =>
                    Len(CompNodes(ctxStack')) = Len(CompNodes(ctxStack)) + 1
        /\ C1_ModeByContext # "link" =>
              /\ CompLists(ctxStack') = CompLists(ctxStack)
              /\ last'.status # "raised" =>
                    /\ Len(frames') = Len(frames) + 1
                    /\ Top(frames').op = "local"
                    /\ Top(frames').root = (C1_ModeByContext = "root")]_vars

\* a Link was made while the local-execution marker was active as well
C1_Witness ==
    /\ last.op = "call" /\ last.mode = "link" /\ last.status = "ok"
    /\ CompActive(ctxStack) /\ MarkerActive(ctxStack)

C3_PositionalCallStep ==
    \/ TopCallStep /\ last'.nargs > 0
    \/ BodyCallStep /\ CurStmt.nargs > 0

\* C3: a call with positional arguments raises the usage error under every
\* ambient context, and changes neither the traces, nor the context stack,
\* nor the running bodies
C3_Positional ==
    [][C3_PositionalCallStep =>
        /\ last'.op = "call" /\ last'.status = "raised"
        /\ last'.err = "AssertionError:positional"
        /\ ctxStack' = ctxStack /\ frames' = frames /\ wf' = wf]_vars

\* a positional call was rejected under an active trace that holds a Node
C3_Witness ==
    /\ last.op = "call" /\ last.nargs > 0 /\ last.err = "AssertionError:positional"
    /\ exc # "" /\ CompActive(ctxStack) /\ Len(CompNodes(ctxStack)) > 0

C4_LinkStep == BodyCallStep /\ CurStmt.nargs = 0 /\ CompActive(ctxStack)
C4_Declared == Range(Inputs(Func(CurStmt.callee)))
C4_Supplied == KwNames(CurStmt.kw)

\* C4: a Link whose keyword names differ from the declared input names is
\* rejected: with a declared input omitted by the missing-input error, with
\* only undeclared names added by the too-many-inputs error; the node list of
\* the trace, and everything else but the exception, is as before the call
C4_LinkNames ==
    [][(C4_LinkStep /\ C4_Supplied # C4_Declared) =>
        /\ last'.status = "raised"
        /\ (C4_Declared \ C4_Supplied # {}) => last'.err = "FlyteAssertion:missing_input"
        /\ (C4_Declared \subseteq C4_Supplied) => last'.err = "FlyteAssertion:too_many_inputs"
        /\ exc' = last'.err
        /\ ctxStack' = ctxStack /\ frames' = frames /\ wf' = wf]_vars

\* a Link with an undeclared name was rejected under a trace that holds a Node
C4_Witness ==
    /\ last.mode = "link" /\ last.err = "FlyteAssertion:too_many_inputs"
    /\ exc # "" /\ CompActive(ctxStack) /\ Len(CompNodes(ctxStack)) = 1

C5_BadKwargs(w, kw) ==
    \E i \in 1..Len(kw) : kw[i].k \notin Range(Inputs(Func(w))) \/ IsPromise(kw[i].v)

\* C5: a top-level call given a Promise or an undeclared name raises the
\* usage error; no context is entered and no body is started
C5_RootCheck ==
    [][(TopCallStep /\ last'.nargs = 0 /\ ~CompActive(ctxStack) /\ ~MarkerActive(ctxStack)
            /\ C5_BadKwargs(last'.w, last'.kw)) =>
        /\ last'.status = "raised"
        /\ last'.err \in {"ValueError:unexpected_kwarg", "ValueError:promise_given"}
        /\ ctxStack' = ctxStack /\ frames' = frames /\ exc' = "" /\ wf' = wf]_vars

\* a top-level call was rejected because of a Promise among declared names
C5_Witness ==
    /\ Idle /\ ctxStack = <<>>
    /\ last.op = "call" /\ last.mode = "root" /\ last.err = "ValueError:promise_given"
    /\ KwNames(last.kw) \subseteq Range(Inputs(Func(last.w)))

C2_Matches(k, sh) ==
    IF k = 0 THEN sh.s = "none"
    ELSE IF k = 1 THEN sh.s = "bare" \/ (sh.s = "tuple" /\ sh.n = 1)
    ELSE sh.s = "tuple" /\ sh.n = k
\* the returned values looked at: None, a bare value, a tuple; the empty
\* tuple is left aside, which "absent" may be read to cover
C2_CompileReturnStep ==
    /\ AtReturn /\ Top(frames).op = "compile"
    /\ retShape[Func(Top(frames).w)].s \in {"none", "bare", "tuple"}
    /\ retShape[Func(Top(frames).w)] # ShapeTuple(0)

\* C2: compile() succeeds exactly when the shape of the traced return value
\* matches the number k of declared outputs: None for k = 0, a bare value or
\* a 1-tuple for k = 1, a k-tuple for k > 1
C2_ArityLaw ==
    [][C2_CompileReturnStep =>
        ((last'.op = "compile" /\ last'.status = "ok")
            <=> C2_Matches(Len(Outputs(Func(Top(frames).w))),
                           retShape[Func(Top(frames).w)]))]_vars

\* every node list there is: of the active traces and of the compiled workflows
AllNodeLists ==
    Range(CompLists(ctxStack))
        \cup {TheVal(wf[w].nodes) : w \in {v \in WfIds : ~IsNull(wf[v].nodes)}}

\* the nodes whose outputs the input bindings of the node n refer to
ReferencedNodes(n) ==
    {b.binding.node : b \in {c \in Range(n.bindings) :
                                /\ c.binding.t = "outref"
                                /\ c.binding.node # GLOBAL_INPUT_NODE_ID}}

\* C6: the upstream nodes of a Node are the distinct Nodes its Promise-valued
\* inputs refer to, each listed once
C6_UpstreamIsSet ==
    \A L \in AllNodeLists : \A i \in 1..Len(L) :
        /\ Range(L[i].upstream_nodes) = ReferencedNodes(L[i])
        /\ Cardinality(Range(L[i].upstream_nodes)) = Len(L[i].upstream_nodes)

C7_SortedByName(bs) ==
    \A i \in 1..Len(bs), j \in 1..Len(bs) :
        i < j => NameRank(bs[i].var) < NameRank(bs[j].var)

\* C7: two Nodes of one trace that link the same workflow with the same
\* keyword arguments have the same list of bindings, sorted by input name,
\* and the same set of upstream nodes, whatever the order of the arguments
C7_OrderInvariance ==
    \A L \in AllNodeLists : \A i \in 1..Len(L), j \in 1..Len(L) :
        /\ C7_SortedByName(L[i].bindings)
        /\ (/\ L[i].flyte_entity = L[j].flyte_entity
            /\ Range(L[i].bindings) = Range(L[j].bindings))
           => /\ L[i].bindings = L[j].bindings
              /\ Range(L[i].upstream_nodes) = Range(L[j].upstream_nodes)

\* pair(a=r1, b=r2) and pair(b=r2, a=r1) were linked in one trace: the same
\* bindings, the same upstream nodes listed in a different order
C7_Witness ==
    /\ mainBody = 2
    /\ \E L \in AllNodeLists :
          /\ Len(L) = 4
          /\ Len(L[3].bindings) = 2
          /\ L[3].bindings = L[4].bindings
          /\ L[3].upstream_nodes # L[4].upstream_nodes
          /\ Range(L[3].upstream_nodes) = Range(L[4].upstream_nodes)

C8_IdsFromZero(nodes) == \A i \in 1..Len(nodes) : nodes[i].id = NodeId(i - 1)

\* C8: a compile() of a function with the same kwargs as an earlier compile()
\* of it, on the same Workflow or on another one, yields the same nodes and
\* the same output bindings, with the identifiers counted from node-0 again
C8_Idempotent ==
    [][\A w \in WfIds, v \in WfIds :
        (/\ Func(w) = Func(v)
         /\ ~IsNull(wf'[w].nodes) /\ ~IsNull(wf[v].nodes)
         /\ compiledWith'[w] = compiledWith[v])
        => /\ wf'[w].nodes = wf[v].nodes
           /\ wf'[w].output_bindings = wf[v].output_bindings
           /\ C8_IdsFromZero(TheVal(wf'[w].nodes))]_vars

\* "main" was compiled, exported and compiled again, and the fresh instance
\* "main2" was compiled with the same kwargs; the graph has several nodes
C8_Witness ==
    /\ Idle /\ last.op = "compile" /\ last.status = "ok" /\ last.w = "main"
    /\ ~IsNull(wf["main"].registerable_entity)
    /\ ~IsNull(wf["main2"].nodes)
    /\ compiledWith["main"] = compiledWith["main2"]
    /\ Len(TheVal(wf["main"].nodes)) > 1

C9_ExportStep == Idle /\ last'.op = "export"

\* C9: get_registerable_entity on a workflow without nodes raises, returns
\* nothing and leaves the cache empty; on a compiled workflow with an empty
\* cache it builds the entity from the compiled nodes and output bindings
C9_Export ==
    [][C9_ExportStep =>
        /\ IsNull(wf[last'.w].nodes) =>
              /\ last'.status = "raised" /\ last'.value = NoneV
              /\ IsNull(wf'[last'.w].registerable_entity)
              /\ wf' = wf
        /\ (~IsNull(wf[last'.w].nodes) /\ IsNull(wf[last'.w].registerable_entity)) =>
              /\ last'.status = "ok"
              /\ wf'[last'.w].registerable_entity = Some(last'.value)
              /\ Len(last'.value.nodes) = Len(TheVal(wf[last'.w].nodes))
              /\ \A i \in 1..Len(last'.value.nodes) :
                    last'.value.nodes[i] = SdkNode(TheVal(wf[last'.w].nodes)[i])
              /\ last'.value.output_bindings = wf[last'.w].output_bindings]_vars

\* an export of an uncompiled workflow has just failed
C9_Witness ==
    /\ Idle /\ last.op = "export" /\ last.status = "raised"
    /\ IsNull(wf[last.w].nodes) /\ IsNull(wf[last.w].registerable_entity)

C10_RootDone == Idle /\ last.op = "call" /\ last.mode = "root" /\ last.status = "ok"

\* C10: a top-level call that returns, returns None for no declared output,
\* one native value for one, a tuple of k native values in declared order
\* for k > 1; it returns only if the body returned a value of a matching shape
C10_RootReturn ==
    C10_RootDone =>
        LET f == Func(last.w)
            k == Len(Outputs(f))
            v == last.value
        IN /\ C2_Matches(k, retShape[f])
           /\ k = 0 => v = NoneV
           /\ k = 1 => v.t = "native"
           /\ k > 1 => /\ IsTuple(v) /\ Len(v.items) = k
                       /\ \A i \in 1..k : v.items[i].t = "native"
           \* pair returns (leaf(a=a), b)
           /\ f = "pair" => /\ v.items[1] = ToPythonValue(KwGet(last.kw, "a").val)
                            /\ v.items[2] = ToPythonValue(KwGet(last.kw, "b").val)

\* pair(a=x, b=y) with x # y has returned the native tuple (x, y)
C10_Witness ==
    /\ C10_RootDone /\ last.w = "pair"
    /\ last.value.items[1] # last.value.items[2]

\* C11: the nodes and the output bindings of a compiled Workflow never change:
\* no call, no further compile() with or without kwargs, no export alters them
C11_Frozen ==
    [][\A w \in WfIds : ~IsNull(wf[w].nodes) =>
          /\ wf'[w].nodes = wf[w].nodes
          /\ wf'[w].output_bindings = wf[w].output_bindings]_vars

\* the step makes a compile() fail: its kwargs do not fit the function, its
\* output resolution raises, or an exception leaves its traced body
C12_FailStep ==
    \/ Idle /\ last'.op = "compile" /\ last'.status = "raised"
    \/ AtStmt /\ CurStmt.kind = "compile" /\ last'.status = "raised"
    \/ AtReturn /\ Top(frames).op = "compile" /\ last'.status = "raised"
    \/ exc # "" /\ frames # <<>> /\ Top(frames).op = "compile"

\* C12: a compile() that fails leaves the nodes and output bindings of every
\* Workflow as they were; the compilation context of the failed trace is
\* dropped with its Nodes; only a compile() that returns stores anything
C12_FailedCompile ==
    [][/\ C12_FailStep => wf' = wf
       /\ (exc # "" /\ frames # <<>> /\ Top(frames).op = "compile") =>
              /\ Top(ctxStack).kind = "comp"
              /\ ctxStack' = Pop(ctxStack)
       /\ \A w \in WfIds :
              (\/ wf'[w].nodes # wf[w].nodes
               \/ wf'[w].output_bindings # wf[w].output_bindings)
              => /\ AtReturn /\ Top(frames).op = "compile" /\ Top(frames).w = w
                 /\ last'.op = "compile" /\ last'.status = "ok"]_vars

\* "main", compiled before, was compiled again with a=None: the trace linked
\* unit() and the output resolution raised; its earlier graph is still there
C12_Witness ==
    /\ Idle /\ ctxStack = <<>> /\ mainBody = 6
    /\ last.op = "compile" /\ last.status = "raised" /\ last.w = "main"
    /\ last.kw = <<Kw("a", NoneV)>>
    /\ ~IsNull(wf["main"].nodes) /\ Len(TheVal(wf["main"].nodes)) = 1
    /\ compiledWith["main"] # last.kw

\* the running operations that entered a context of their own, outermost first
C13_Entered == SelectSeq(frames, LAMBDA fr : EnteredContext(fr))

\* C13: the context stack holds exactly the contexts entered by the
\* operations still running, a compilation context per compile() and a
\* local-execution marker per top-level call, in the order they were entered;
\* with no operation running no tracing context and no marker is active
C13_StackDiscipline ==
    /\ Len(ctxStack) = Len(C13_Entered)
    /\ \A i \in 1..Len(ctxStack) :
          IF C13_Entered[i].op = "compile"
          THEN ctxStack[i].kind = "comp"
          ELSE ctxStack[i] = ExecEntry(LOCAL_WORKFLOW_EXECUTION)
    /\ frames = <<>> => /\ ctxStack = <<>>
                        /\ ~CompActive(ctxStack) /\ ~MarkerActive(ctxStack)

\* a top-level call of "pair" has failed inside the nested call of "leaf",
\* two bodies deep, and the caller is back with no context left
C13_Witness ==
    /\ Idle /\ ctxStack = <<>>
    /\ last.op = "call" /\ last.w = "pair" /\ last.mode = "root"
    /\ last.status = "raised" /\ last.err = "AssertionError:one_return_value"

\* the step is a call made by a traced body without positional arguments
C14_LinkStep == BodyCallStep /\ CurStmt.nargs = 0 /\ CompActive(ctxStack)

\* C14: a Link that succeeds appends one Node, whose entity is the called
\* Workflow, after the Nodes of the enclosing trace; it opens no context,
\* starts no body (the caller goes on with the returned value) and changes
\* no Workflow, the callee included
C14_LinkAppendsOne ==
    [][(C14_LinkStep /\ last'.status = "ok") =>
        /\ last'.mode = "link" /\ last'.w = CurStmt.callee
        /\ Len(ctxStack') = Len(ctxStack)
        /\ CompIndex(ctxStack') = CompIndex(ctxStack)
        /\ \A i \in 1..Len(ctxStack) :
              i # CompIndex(ctxStack) => ctxStack'[i] = ctxStack[i]
        /\ Len(CompNodes(ctxStack')) = Len(CompNodes(ctxStack)) + 1
        /\ SubSeq(CompNodes(ctxStack'), 1, Len(CompNodes(ctxStack))) = CompNodes(ctxStack)
        /\ Top(CompNodes(ctxStack')).flyte_entity = CurStmt.callee
        /\ frames' = Resume(frames, last'.value)
        /\ wf' = wf]_vars

\* "pair" was linked as the second Node of a trace; the body of "pair" links
\* "leaf" when it runs, and no such third Node is there
C14_Witness ==
    /\ last.op = "call" /\ last.mode = "link" /\ last.status = "ok" /\ last.w = "pair"
    /\ Running /\ Top(frames).op = "compile" /\ Top(frames).w # "pair"
    /\ Len(CompNodes(ctxStack)) = 2
    /\ CompNodes(ctxStack)[2].flyte_entity = "pair"
    /\ IsNull(wf["pair"].nodes)

C15_IsPrefix(s, t) == Len(s) <= Len(t) /\ SubSeq(t, 1, Len(s)) = s

\* C15: after every step the Node at position i (counted from 0) of every
\* node list of a trace has the identifier node-i, so the identifiers of a
\* trace are distinct and follow call order; a step only ever appends to the
\* node list of a compilation context that stays
C15_NodeIds ==
    [][/\ \A i \in 1..Len(ctxStack') :
             ctxStack'[i].kind = "comp" =>
                \A j \in 1..Len(ctxStack'[i].nodes) :
                    ctxStack'[i].nodes[j].id = NodeId(j - 1)
       /\ \A i \in 1..Len(ctxStack) :
             (i <= Len(ctxStack') /\ ctxStack[i].kind = "comp") =>
                C15_IsPrefix(ctxStack[i].nodes, ctxStack'[i].nodes)]_vars

\* a trace holds four Nodes, with four different identifiers
C15_Witness ==
    /\ CompActive(ctxStack) /\ Len(CompNodes(ctxStack)) = 4
    /\ Cardinality({CompNodes(ctxStack)[i].id : i \in 1..4}) = 4
    /\ CompNodes(ctxStack)[4].id = NodeId(3)

\* C16: the nodes and the output bindings of a Workflow are both None or
\* both set, and when set there is one output binding per declared output
C16_BothOrNeither ==
    \A w \in WfIds :
        /\ IsNull(wf[w].nodes) <=> IsNull(wf[w].output_bindings)
        /\ ~IsNull(wf[w].nodes) =>
              Len(TheVal(wf[w].output_bindings)) = Len(Outputs(Func(w)))

\* "pair" is compiled with a Node and two output bindings, named after its
\* outputs, while "leaf" is not compiled
C16_Witness ==
    /\ Idle /\ ~IsNull(wf["pair"].nodes) /\ IsNull(wf["leaf"].nodes)
    /\ Len(TheVal(wf["pair"].nodes)) = 1
    /\ [i \in 1..2 |-> TheVal(wf["pair"].output_bindings)[i].var] = Outputs("pair")

\* C17: an export cache that is filled never changes; it is filled only by
\* an export that succeeds on a workflow with nodes; an export that finds it
\* filled returns the stored entity and changes nothing, whatever the
\* settings and whatever was compiled since
C17_CacheOnce ==
    [][/\ \A w \in WfIds :
             ~IsNull(wf[w].registerable_entity) =>
                wf'[w].registerable_entity = wf[w].registerable_entity
       /\ \A w \in WfIds :
             wf'[w].registerable_entity # wf[w].registerable_entity =>
                /\ C9_ExportStep /\ last'.w = w /\ last'.status = "ok"
                /\ ~IsNull(wf[w].nodes)
       /\ (C9_ExportStep /\ ~IsNull(wf[last'.w].registerable_entity)) =>
             /\ last'.status = "ok"
             /\ last'.value = TheVal(wf[last'.w].registerable_entity)
             /\ wf' = wf]_vars

\* an export returned the stored entity although a compile() since the first
\* export has changed the nodes or the output bindings of the workflow
C17_Witness ==
    /\ Idle /\ last.op = "export" /\ last.status = "ok"
    /\ Some(last.value) = wf[last.w].registerable_entity
    /\ \/ last.value.output_bindings # wf[last.w].output_bindings
       \/ \E i \in 1..Len(last.value.nodes) :
             last.value.nodes[i] # SdkNode(TheVal(wf[last.w].nodes)[i])

\* C18: a Link that succeeds returns, for the k declared outputs of the
\* callee in declared order, Promises named after the outputs that refer to
\* that output of the Node just appended and carry no value: the one Promise
\* itself for k = 1, a tuple of the k Promises otherwise
C18_LinkResult ==
    [][(C14_LinkStep /\ last'.status = "ok") =>
        LET names == Outputs(Func(CurStmt.callee))
            k == Len(names)
            node == Top(CompNodes(ctxStack'))
            v == last'.value
            ps == IF k = 1 THEN <<v>> ELSE v.items
        IN /\ k = 1 => IsPromise(v)
           /\ k # 1 => IsTuple(v)
           /\ Len(ps) = k
           /\ \A i \in 1..k :
                 /\ IsPromise(ps[i]) /\ ~IsReady(ps[i])
                 /\ ps[i].var = names[i]
                 /\ ps[i].val = NodeOutput(node.id, names[i])]_vars

\* the Link of "pair", with two outputs, returned a tuple of two Promises on
\* the second Node of the trace
C18_Witness ==
    /\ last.op = "call" /\ last.mode = "link" /\ last.status = "ok"
    /\ IsTuple(last.value) /\ Len(last.value.items) = 2
    /\ last.value.items[1].var # last.value.items[2].var
    /\ last.value.items[2].val.node = NodeId(1)

\* the body traced by compile() returns an unresolved conditional as the
\* value of a declared output: as the sole value (bare or in a 1-tuple) for
\* one output, as the first of k values for k > 1 outputs
C19_CondReturned ==
    /\ AtReturn /\ Top(frames).op = "compile"
    /\ LET k == Len(Outputs(Func(Top(frames).w)))
           sh == retShape[Func(Top(frames).w)]
       IN \/ k = 1 /\ sh \in {ShapeCond, ShapeTupleCond(1)}
          \/ k > 1 /\ sh = ShapeTupleCond(k)

\* C19: compile() of a body that returns an unresolved conditional for a
\* declared output raises the missing-else specification error and stores
\* nothing, for one declared output as for several
C19_CondRejected ==
    [][C19_CondReturned =>
        /\ last'.op = "compile" /\ last'.status = "raised"
        /\ last'.err = "AssertionError:conditional_no_else"
        /\ wf' = wf]_vars

\* a locally executed body is about to return None, a bare value or a
\* tuple that is not empty
C20_PlainReturn ==
    /\ AtReturn /\ Top(frames).op = "local"
    /\ retShape[Func(Top(frames).w)].s \in {"none", "bare", "tuple"}
    /\ retShape[Func(Top(frames).w)] # ShapeTuple(0)

\* C20: on the value a body returns, the output resolution of compile()
\* raises exactly when _workflow_fn_outputs_to_promise raises; when both
\* accept, both yield one output per declared output, named in declared
\* order, the i-th made from the i-th returned value
C20_ResolversAgree ==
    C20_PlainReturn =>
        LET f == Func(Top(frames).w)
            names == Outputs(f)
            k == Len(names)
            rv == ReturnValue(Top(frames))
            c == CompileBindings(f, rv)
            l == WorkflowFnOutputsToPromise(f, rv)
        IN /\ (c.err # "") <=> (l.err # "")
           /\ (c.err = "" /\ l.err = "") =>
                 /\ Len(c.val) = k
                 /\ k > 0 => Len(TheVal(l.val)) = k
                 /\ \A i \in 1..k :
                       /\ c.val[i].var = names[i]
                       /\ TheVal(l.val)[i].var = names[i]
                       /\ c.val[i].binding = BindingData(TheVal(l.val)[i])

====
